---- MODULE Spec2Model ----
(***************************************************************************)
(* Model of HybridDataService (src/src/services/hybridDataService.ts): the *)
(* connectivity-aware sync orchestrator that dual-writes every mutation to *)
(* a local store (dataService) and a remote store (firebaseService) and    *)
(* reconciles both with one-at-a-time sync passes.                         *)
(*                                                                         *)
(* JavaScript runs one task at a time: an async method runs without        *)
(* interruption up to its next `await` of a remote call.  Each action     *)
(* below is one such uninterrupted run: the synchronous head of a method,  *)
(* or the continuation that runs when an awaited remote call settles.      *)
(***************************************************************************)
EXTENDS Integers, Sequences, FiniteSets, TLC

\* ----------------------------------------------------------------- bounds
MaxEvents == 2   \* calls made and network events delivered in one behaviour
MaxLen    == 2   \* length of a collection given to mergeData directly
MaxClock  == 2   \* readings of the wall clock after the first

Ids       == {1, 2}
MergeIds  == {1, 2, 3}
Status    == {"pending", "approved"}

Collections == {"users", "components", "requests", "notifications", "loginSessions"}

\* --------------------------------------------------------------- entities
\* types.ts is not part of the sources at hand; every entity is its id plus
\* one type-specific field.
Entity(i, s)       == [id |-> i, status |-> s]
Notif(i, r)        == [id |-> i, read |-> r]
NoTime             == 0 - 1
SessionRec(i, u, a, t0, t1, d) ==
  [id |-> i, userId |-> u, isActive |-> a,
   loginTime |-> t0, logoutTime |-> t1, sessionDuration |-> d]
Session(i, u, a)   == SessionRec(i, u, a, 0, NoTime, NoTime)

EmptyData ==
  [users |-> <<>>, components |-> <<>>, requests |-> <<>>,
   notifications |-> <<>>, loginSessions |-> <<>>]

HasId(items, id) == \E i \in 1..Len(items) : items[i].id = id

IdsOf(items) == {items[i].id : i \in 1..Len(items)}

UniqueIds(items) ==
  \A i, j \in 1..Len(items) : items[i].id = items[j].id => i = j

ItemOf(items, id) == items[CHOOSE i \in 1..Len(items) : items[i].id = id]

\* ------------------------------------------------- reconciliation engine
\* local.forEach(localItem => { if (merged.findIndex(...) === -1) merged.push(localItem) })
RECURSIVE mergeLoop(_, _, _)
mergeLoop(merged, local_, i) ==
  IF i > Len(local_) THEN merged
  ELSE mergeLoop(IF HasId(merged, local_[i].id) THEN merged
                 ELSE Append(merged, local_[i]),
                 local_, i + 1)

\* mutants of mergeArrays
mergeArrays_localWins(local_, firebase) ==
  mergeLoop(local_, firebase, 1)

mergeArrays_noLookup(local_, firebase) ==
  firebase \o local_

mergeArrays_invertedTest(local_, firebase) ==
  firebase \o SelectSeq(local_, LAMBDA x : HasId(firebase, x.id))

\* const merged = [...firebase]; local.forEach(...); return merged
mergeArrays(local_, firebase) ==
  mergeLoop(firebase, local_, 1)

mergeData(localData, firebaseData) ==
  [users         |-> mergeArrays(localData.users, firebaseData.users),
   components    |-> mergeArrays(localData.components, firebaseData.components),
   requests      |-> mergeArrays(localData.requests, firebaseData.requests),
   notifications |-> mergeArrays(localData.notifications, firebaseData.notifications),
   loginSessions |-> mergeArrays(localData.loginSessions, firebaseData.loginSessions)]

isFirebaseEmpty(data) ==
  /\ Len(data.users) = 0
  /\ Len(data.components) = 0
  /\ Len(data.requests) = 0

\* --------------------------------------------------- local store adapter
\* dataService.ts is not part of the sources at hand: a key-indexed store
\* whose getData() returns the snapshot at the time of the call and whose
\* writes are synchronous.
dataService_add(data, c, e) ==
  [data EXCEPT ![c] = Append(@, e)]

dataService_update(data, c, e) ==
  [data EXCEPT ![c] = [i \in 1..Len(@) |-> IF @[i].id = e.id THEN e ELSE @[i]]]

dataService_delete(data, c, id) ==
  [data EXCEPT ![c] = SelectSeq(@, LAMBDA x : x.id # id)]

\* -------------------------------------------------- remote store adapter
\* firebaseService.ts is not part of the sources at hand: create writes the
\* document under the entity's id, update and delete act on that document.
firebase_create(data, c, e) ==
  IF HasId(data[c], e.id) THEN dataService_update(data, c, e)
  ELSE dataService_add(data, c, e)

RECURSIVE firebase_createAll(_, _, _, _)
firebase_createAll(data, c, items, i) ==
  IF i > Len(items) THEN data
  ELSE firebase_createAll(firebase_create(data, c, items[i]), c, items, i + 1)

\* migrateLocalDataToFirebase(localData): pushes every entity of every collection
firebase_migrate(data, localData) ==
  LET d1 == firebase_createAll(data, "users", localData.users, 1)
      d2 == firebase_createAll(d1, "components", localData.components, 1)
      d3 == firebase_createAll(d2, "requests", localData.requests, 1)
      d4 == firebase_createAll(d3, "notifications", localData.notifications, 1)
  IN  firebase_createAll(d4, "loginSessions", localData.loginSessions, 1)

\* dataService.endLoginSession(userId) at clock reading t: the user's open
\* sessions are closed, logoutTime = t, sessionDuration = t - loginTime
dataService_endLoginSession(data, userId, t) ==
  LET ss == data.loginSessions IN
  [data EXCEPT !.loginSessions =
     [i \in 1..Len(ss) |->
        IF ss[i].userId = userId /\ ss[i].isActive
        THEN [ss[i] EXCEPT !.isActive = FALSE, !.logoutTime = t,
                           !.sessionDuration = t - ss[i].loginTime]
        ELSE ss[i]]]

\* firebaseService.updateLoginSession(id, partial): the fields of the document
firebase_updateLoginSession(data, upd) ==
  LET ss == data.loginSessions IN
  [data EXCEPT !.loginSessions =
     [i \in 1..Len(ss) |->
        IF ss[i].id = upd.id
        THEN [ss[i] EXCEPT !.isActive = upd.isActive, !.logoutTime = upd.logoutTime,
                           !.sessionDuration = upd.sessionDuration]
        ELSE ss[i]]]

\* the mirrored remote write of one wrapper call
firebase_apply(data, call) ==
  CASE call.kind = "create" -> firebase_create(data, call.coll, call.ent)
    [] call.kind = "update" -> dataService_update(data, call.coll, call.ent)
    [] call.kind = "delete" -> dataService_delete(data, call.coll, call.ent.id)

\* ------------------------------------------------------------------ state
VARIABLES
  isOnline,        \* HybridDataService.isOnline
  syncInProgress,  \* HybridDataService.syncInProgress
  local,           \* the snapshot held by dataService
  remote,          \* the snapshot held by firebaseService
  passes,          \* the syncWithFirebase calls suspended at an await
  calls,           \* the wrapper calls suspended at their remote await
  nEvents,         \* how many calls and network events so far
  ev,              \* what the last step did (the log line of the step)
  ends,            \* the endLoginSession calls suspended at an await
  now,             \* the wall clock read by `new Date()`
  deleted,         \* component ids whose deleteComponent() has returned
  mA, mB, mOut, mOut2   \* mergeData applied directly: inputs and results

sysvars == <<isOnline, syncInProgress, local, remote, passes, calls,
             nEvents, ev, ends, now, deleted>>
mvars   == <<mA, mB, mOut, mOut2>>
vars    == <<isOnline, syncInProgress, local, remote, passes, calls,
             nEvents, ev, ends, now, deleted, mA, mB, mOut, mOut2>>

NoCall == [op |-> "none", coll |-> "none", kind |-> "none", ent |-> Entity(0, "none")]
NoPass == [pc |-> "none", localData |-> EmptyData, firebaseData |-> EmptyData,
           arg |-> EmptyData]
Event(t, via, call, pass, outcome) ==
  [type |-> t, via |-> via, call |-> call, pass |-> pass, outcome |-> outcome]

\* ------------------------------------------------------- sync pass: entry
\* line 44: the pass proceeds iff !( !this.isOnline || this.syncInProgress )
SyncGuard_noInProgressCheck(on, sip) == on

SyncGuard_noOnlineCheck(on, sip) == ~sip

SyncGuard(on, sip) == ~(~on \/ sip)

\* lines 46-52: the flag is set, the local snapshot is read, the fetch is awaited
NewPass(loc) ==
  [pc |-> "fetch", localData |-> loc, firebaseData |-> EmptyData, arg |-> EmptyData]

\* the synchronous head of syncWithFirebase(), as a function of the state it reads
syncWithFirebase_entry(on, sip, ps, loc) ==
  IF ~SyncGuard(on, sip)
  THEN [syncInProgress |-> sip, passes |-> ps, started |-> FALSE]
  ELSE [syncInProgress |-> TRUE, passes |-> Append(ps, NewPass(loc)), started |-> TRUE]

\* forcSync(): if (this.isOnline) await this.syncWithFirebase()
forcSync_entry(on, sip, ps, loc) ==
  IF on THEN syncWithFirebase_entry(on, sip, ps, loc)
  ELSE [syncInProgress |-> sip, passes |-> ps, started |-> FALSE]

\* initializeSync(): if (this.isOnline) await this.syncWithFirebase()
initializeSync_entry(on, sip, ps, loc) ==
  IF on THEN syncWithFirebase_entry(on, sip, ps, loc)
  ELSE [syncInProgress |-> sip, passes |-> ps, started |-> FALSE]

\* lines 23-26: the 'online' listener: this.isOnline = true; this.syncWithFirebase()
onlineListener_entry_flagOnly(sip, ps, loc) ==
  [syncInProgress |-> sip, passes |-> ps, started |-> FALSE]

onlineListener_entry(sip, ps, loc) == syncWithFirebase_entry(TRUE, sip, ps, loc)

\* ------------------------------------------------ sync pass: continuation
\* lines 52-65: what the pass does when its awaited snapshot fetch settles.
\* ok: the fetch returned `data` (otherwise it threw); saveOk: saveData returns
\* (otherwise it throws).  next = "end": the pass runs into its finally block.
afterFetch_failAsEmpty(p, ok, data, loc, saveOk) ==
  IF isFirebaseEmpty(IF ok THEN data ELSE EmptyData)
  THEN [local |-> loc, next |-> "migrate", arg |-> p.localData, outcome |-> "migrating"]
  ELSE [local |-> mergeData(p.localData, data), next |-> "end", arg |-> EmptyData,
        outcome |-> "merged"]

afterFetch_alwaysMerge(p, ok, data, loc, saveOk) ==
  IF ~ok
  THEN [local |-> loc, next |-> "end", arg |-> EmptyData, outcome |-> "fetchFailed"]
  ELSE [local |-> mergeData(p.localData, data), next |-> "end", arg |-> EmptyData,
        outcome |-> "merged"]

afterFetch(p, ok, data, loc, saveOk) ==
  IF ~ok
  THEN [local |-> loc, next |-> "end", arg |-> EmptyData, outcome |-> "fetchFailed"]
  ELSE IF isFirebaseEmpty(data)
  THEN [local |-> loc, next |-> "migrate", arg |-> p.localData, outcome |-> "migrating"]
  ELSE IF saveOk
  THEN [local |-> mergeData(p.localData, data), next |-> "end", arg |-> EmptyData,
        outcome |-> "merged"]
  ELSE [local |-> loc, next |-> "end", arg |-> EmptyData, outcome |-> "saveFailed"]

\* lines 64-68: catch logs, finally { this.syncInProgress = false }
syncInProgress_afterPass_onlyOnSuccess(sip, outcome) ==
  IF outcome \in {"merged", "migrated"} THEN FALSE ELSE sip

syncInProgress_afterPass_keepsFlag(sip, outcome) == sip

syncInProgress_afterPass(sip, outcome) == FALSE

RemoveAt(s, i) == SubSeq(s, 1, i - 1) \o SubSeq(s, i + 1, Len(s))

\* ------------------------------------------------------------------- Init
InitLocals ==
  { EmptyData,
    [EmptyData EXCEPT !.requests = <<Entity(1, "pending")>>] }

InitRemotes ==
  { EmptyData,
    [EmptyData EXCEPT !.requests = <<Entity(1, "approved"), Entity(2, "pending")>>],
    [EmptyData EXCEPT !.notifications = <<Notif(1, FALSE)>>],
    [EmptyData EXCEPT !.loginSessions = <<Session(1, 1, TRUE)>>] }

NotComputed == [done |-> FALSE, data |-> EmptyData]

MergeIdle ==
  /\ mA = EmptyData /\ mB = EmptyData
  /\ mOut = NotComputed /\ mOut2 = NotComputed

\* the state after `new HybridDataService()`: the fields' initialisers, then
\* setupOnlineListener() and the synchronous head of initializeSync()
InitSys ==
  /\ isOnline \in BOOLEAN
  /\ local \in InitLocals
  /\ remote \in InitRemotes
  /\ LET r == initializeSync_entry(isOnline, FALSE, <<>>, local)
     IN  /\ syncInProgress = r.syncInProgress
         /\ passes = r.passes
         /\ ev = Event("init", "initializeSync", NoCall, NoPass,
                       IF r.started THEN "started" ELSE "dropped")
  /\ calls = {}
  /\ nEvents = 0
  /\ ends = {}
  /\ now = 0
  /\ deleted = {}

Init == InitSys /\ MergeIdle

\* --------------------------------------------------------------- triggers
Trigger(via, on, r) ==
  /\ nEvents < MaxEvents
  /\ nEvents' = nEvents + 1
  /\ isOnline' = on
  /\ syncInProgress' = r.syncInProgress
  /\ passes' = r.passes
  /\ ev' = Event("trigger", via, NoCall, NoPass,
                 IF r.started THEN "started" ELSE "dropped")
  /\ UNCHANGED <<local, remote, calls>>

\* a caller invokes hybridDataService.syncWithFirebase()
SyncWithFirebase ==
  /\ Trigger("syncWithFirebase", isOnline,
             syncWithFirebase_entry(isOnline, syncInProgress, passes, local))
  /\ UNCHANGED <<mvars, ends, now, deleted>>

\* a caller invokes hybridDataService.forcSync()
ForcSync ==
  /\ Trigger("forcSync", isOnline,
             forcSync_entry(isOnline, syncInProgress, passes, local))
  /\ UNCHANGED <<mvars, ends, now, deleted>>

\* window 'online' event: this.isOnline = true; this.syncWithFirebase()
OnlineEvent ==
  /\ ~isOnline
  /\ Trigger("online", TRUE, onlineListener_entry(syncInProgress, passes, local))
  /\ UNCHANGED <<mvars, ends, now, deleted>>

\* window 'offline' event: this.isOnline = false
OfflineEvent ==
  /\ isOnline
  /\ nEvents < MaxEvents
  /\ nEvents' = nEvents + 1
  /\ isOnline' = FALSE
  /\ ev' = Event("offline", "offline", NoCall, NoPass, "none")
  /\ UNCHANGED <<syncInProgress, local, remote, passes, calls, mvars, ends, now, deleted>>

\* ------------------------------------------------- sync pass: await steps
FetchSettles(i, ok, saveOk, label) ==
  LET p == [passes[i] EXCEPT !.firebaseData = IF ok THEN remote ELSE EmptyData]
      r == afterFetch(p, ok, remote, local, saveOk)
  IN  /\ local' = r.local
      /\ passes' = IF r.next = "end" THEN RemoveAt(passes, i)
                   ELSE [passes EXCEPT ![i] = [p EXCEPT !.pc = r.next, !.arg = r.arg]]
      /\ syncInProgress' = IF r.next = "end"
                           THEN syncInProgress_afterPass(syncInProgress, r.outcome)
                           ELSE syncInProgress
      /\ ev' = Event(label, "sync", NoCall, p, r.outcome)
      /\ UNCHANGED <<isOnline, remote, calls, nEvents, mvars, ends, now, deleted>>

\* firebaseService.syncWithFirebase() resolves with the remote snapshot
SyncFetchOk ==
  \E i \in 1..Len(passes) :
    /\ passes[i].pc = "fetch"
    /\ FetchSettles(i, TRUE, TRUE, "fetchOk")

\* ... resolves, and dataService.saveData(mergedData) then throws
SyncFetchOkSaveThrows ==
  \E i \in 1..Len(passes) :
    /\ passes[i].pc = "fetch"
    /\ afterFetch(passes[i], TRUE, remote, local, FALSE).outcome = "saveFailed"
    /\ FetchSettles(i, TRUE, FALSE, "fetchOkSaveThrows")

\* firebaseService.syncWithFirebase() rejects
SyncFetchFail ==
  \E i \in 1..Len(passes) :
    /\ passes[i].pc = "fetch"
    /\ FetchSettles(i, FALSE, TRUE, "fetchFail")

MigrateSettles(i, ok, label) ==
  LET p == passes[i]
      outcome == IF ok THEN "migrated" ELSE "migrateFailed"
  IN  /\ remote' = IF ok THEN firebase_migrate(remote, p.arg) ELSE remote
      /\ passes' = RemoveAt(passes, i)
      /\ syncInProgress' = syncInProgress_afterPass(syncInProgress, outcome)
      /\ ev' = Event(label, "sync", NoCall, p, outcome)
      /\ UNCHANGED <<isOnline, local, calls, nEvents, mvars, ends, now, deleted>>

\* firebaseService.migrateLocalDataToFirebase(localData) resolves
SyncMigrateOk ==
  \E i \in 1..Len(passes) :
    /\ passes[i].pc = "migrate"
    /\ MigrateSettles(i, TRUE, "migrateOk")

\* ... rejects
SyncMigrateFail ==
  \E i \in 1..Len(passes) :
    /\ passes[i].pc = "migrate"
    /\ MigrateSettles(i, FALSE, "migrateFail")

\* ------------------------------------------------- dual-write wrappers
\* `if (this.isOnline)`: the mirrored remote write is attempted iff online
wrapper_mirrors_always(on) == TRUE

wrapper_mirrors(on) == on

\* the id of a new entity (`user-${Date.now()}`, `notif-${Date.now()}`, a uid):
\* one that no store holds yet
FreshIds(c) ==
  LET free == {i \in Ids : ~HasId(local[c], i) /\ ~HasId(remote[c], i)
                           /\ \A k \in calls : ~(k.coll = c /\ k.ent.id = i)}
  IN  {i \in free : \A j \in free : i <= j}

\* the component ids deleted so far, once `call` has run (`returned`: it has
\* returned to its caller): deleteComponent adds its id, addComponent takes it out
deleted_after(call, returned) ==
  IF call.op = "deleteComponent" /\ returned THEN deleted \cup {call.ent.id}
  ELSE IF call.op = "addComponent" THEN deleted \ {call.ent.id}
  ELSE deleted

\* One wrapper call up to its await: the local write, then either the remote
\* call is issued (the wrapper is suspended) or, offline, the wrapper returns.
\* No second mutation of an entity is started while one is still suspended.
DualWrite(op, c, kind, e, newLocal) ==
  LET call == [op |-> op, coll |-> c, kind |-> kind, ent |-> e]
  IN  /\ nEvents < MaxEvents
      /\ \A k \in calls : ~(k.coll = c /\ k.ent.id = e.id)
      /\ nEvents' = nEvents + 1
      /\ local' = newLocal
      /\ IF wrapper_mirrors(isOnline)
         THEN /\ calls' = calls \cup {call}
              /\ ev' = Event("call", "wrapper", call, NoPass, "awaiting")
         ELSE /\ calls' = calls
              /\ ev' = Event("return", "wrapper", call, NoPass, "localOnly")
      /\ deleted' = deleted_after(call, ~wrapper_mirrors(isOnline))
      /\ UNCHANGED <<isOnline, syncInProgress, remote, passes, mvars, ends, now>>

addUser ==
  \E i \in FreshIds("users") :
    LET user == Entity(i, "pending")
    IN  DualWrite("addUser", "users", "create", user,
                  dataService_add(local, "users", user))

updateUser ==
  \E i \in IdsOf(local.users), s \in Status :
    LET user == Entity(i, s)
    IN  DualWrite("updateUser", "users", "update", user,
                  dataService_update(local, "users", user))

addComponent ==
  \E i \in FreshIds("components") :
    LET component == Entity(i, "pending")
    IN  DualWrite("addComponent", "components", "create", component,
                  dataService_add(local, "components", component))

updateComponent ==
  \E i \in IdsOf(local.components), s \in Status :
    LET component == Entity(i, s)
    IN  DualWrite("updateComponent", "components", "update", component,
                  dataService_update(local, "components", component))

deleteComponent ==
  \E i \in IdsOf(local.components) :
    DualWrite("deleteComponent", "components", "delete",
              ItemOf(local.components, i),
              dataService_delete(local, "components", i))

addRequest ==
  \E i \in FreshIds("requests") :
    LET request == Entity(i, "pending")
    IN  DualWrite("addRequest", "requests", "create", request,
                  dataService_add(local, "requests", request))

updateRequest ==
  \E i \in IdsOf(local.requests), s \in Status :
    LET request == Entity(i, s)
    IN  DualWrite("updateRequest", "requests", "update", request,
                  dataService_update(local, "requests", request))

addNotification ==
  \E i \in FreshIds("notifications") :
    LET notification == Notif(i, FALSE)
    IN  DualWrite("addNotification", "notifications", "create", notification,
                  dataService_add(local, "notifications", notification))

markNotificationAsRead ==
  \E i \in IdsOf(local.notifications) :
    LET notification == Notif(i, TRUE)
    IN  DualWrite("markNotificationAsRead", "notifications", "update", notification,
                  dataService_update(local, "notifications", notification))

createLoginSession ==
  \E i \in FreshIds("loginSessions"), u \in Ids :
    LET session == SessionRec(i, u, TRUE, now, NoTime, NoTime)
    IN  DualWrite("createLoginSession", "loginSessions", "create", session,
                  dataService_add(local, "loginSessions", session))

\* the awaited remote write of a suspended wrapper resolves: the wrapper returns
RemoteCallOk ==
  \E call \in calls :
    /\ remote' = firebase_apply(remote, call)
    /\ calls' = calls \ {call}
    /\ ev' = Event("return", "wrapper", call, NoPass, "mirrored")
    /\ deleted' = deleted_after(call, TRUE)
    /\ UNCHANGED <<isOnline, syncInProgress, local, passes, nEvents, mvars, ends, now>>

\* lines 117-119: catch (error) { console.warn(...) }: the local store after it
wrapper_catch_rollsBack(loc, call) ==
  CASE call.kind = "create" -> dataService_delete(loc, call.coll, call.ent.id)
    [] call.kind = "delete" -> dataService_add(loc, call.coll, call.ent)
    [] OTHER -> loc

wrapper_catch(loc, call) == loc

\* ... rejects: the catch logs a warning and the wrapper returns
RemoteCallFail ==
  \E call \in calls :
    /\ local' = wrapper_catch(local, call)
    /\ calls' = calls \ {call}
    /\ ev' = Event("return", "wrapper", call, NoPass, "remoteFailed")
    /\ deleted' = deleted_after(call, TRUE)
    /\ UNCHANGED <<isOnline, syncInProgress, remote, passes, nEvents, mvars, ends, now>>

\* ------------------------------------------------------ endLoginSession
\* line 240: sessions.filter(s => s.userId === userId && s.isActive)
endLoginSession_active_ignoresUser(sessions, userId) ==
  SelectSeq(sessions, LAMBDA x : x.isActive)

endLoginSession_active(sessions, userId) ==
  SelectSeq(sessions, LAMBDA x : x.userId = userId /\ x.isActive)

\* lines 243-247: the partial update of one remote session, `new Date()` read at t
endLoginSession_update(session, t) ==
  [id |-> session.id, isActive |-> FALSE, logoutTime |-> t,
   sessionDuration |-> t - session.loginTime]

NoUpdate == [id |-> 0, isActive |-> FALSE, logoutTime |-> NoTime,
             sessionDuration |-> NoTime]

EndCall(u) ==
  [op |-> "endLoginSession", coll |-> "loginSessions", kind |-> "end",
   ent |-> [id |-> 0, userId |-> u]]

\* lines 242-248: the loop over the sessions still to close: the next update is
\* issued, or the loop is over and endLoginSession returns
EndLoop(e, queue, outcome) ==
  IF Len(queue) = 0
  THEN /\ ends' = ends \ {e}
       /\ ev' = Event("endReturn", "endLoginSession", EndCall(e.userId), NoPass, outcome)
  ELSE /\ ends' = (ends \ {e}) \cup
                    {[e EXCEPT !.pc = "update", !.queue = Tail(queue),
                               !.upd = endLoginSession_update(Head(queue), now)]}
       /\ ev' = Event("endUpdate", "endLoginSession", EndCall(e.userId), NoPass, outcome)

\* a caller (AuthProvider.logout) invokes endLoginSession(userId): the local
\* closure, then online the session list is requested, offline the call returns
endLoginSession ==
  \E u \in Ids :
    /\ nEvents < MaxEvents
    /\ \A e \in ends : e.userId # u
    /\ nEvents' = nEvents + 1
    /\ local' = dataService_endLoginSession(local, u, now)
    /\ IF wrapper_mirrors(isOnline)
       THEN /\ ends' = ends \cup {[userId |-> u, pc |-> "getAll", queue |-> <<>>,
                                    upd |-> NoUpdate, closeTime |-> now]}
            /\ ev' = Event("endCall", "endLoginSession", EndCall(u), NoPass, "awaiting")
       ELSE /\ ends' = ends
            /\ ev' = Event("endReturn", "endLoginSession", EndCall(u), NoPass, "localOnly")
    /\ UNCHANGED <<isOnline, syncInProgress, remote, passes, calls, mvars, now, deleted>>

\* firebaseService.getAllLoginSessions() resolves
EndGetAllOk ==
  \E e \in ends :
    /\ e.pc = "getAll"
    /\ EndLoop(e, endLoginSession_active(remote.loginSessions, e.userId), "listed")
    /\ UNCHANGED <<isOnline, syncInProgress, local, remote, passes, calls, nEvents,
                   mvars, now, deleted>>

\* firebaseService.updateLoginSession(id, partial) resolves
EndUpdateOk ==
  \E e \in ends :
    /\ e.pc = "update"
    /\ remote' = firebase_updateLoginSession(remote, e.upd)
    /\ EndLoop(e, e.queue, "closed")
    /\ UNCHANGED <<isOnline, syncInProgress, local, passes, calls, nEvents,
                   mvars, now, deleted>>

\* either remote call rejects: the catch logs a warning, endLoginSession returns
EndRemoteFail ==
  \E e \in ends :
    /\ ends' = ends \ {e}
    /\ ev' = Event("endReturn", "endLoginSession", EndCall(e.userId), NoPass,
                   IF e.pc = "getAll" THEN "getAllFailed" ELSE "updateFailed")
    /\ UNCHANGED <<isOnline, syncInProgress, local, remote, passes, calls, nEvents,
                   mvars, now, deleted>>

\* ---------------------------------------------------------- specification
Next ==
  \/ SyncWithFirebase
  \/ ForcSync
  \/ OnlineEvent
  \/ OfflineEvent
  \/ SyncFetchOk
  \/ SyncFetchOkSaveThrows
  \/ SyncFetchFail
  \/ SyncMigrateOk
  \/ SyncMigrateFail
  \/ addUser
  \/ updateUser
  \/ addComponent
  \/ updateComponent
  \/ deleteComponent
  \/ addRequest
  \/ updateRequest
  \/ addNotification
  \/ markNotificationAsRead
  \/ createLoginSession
  \/ RemoteCallOk
  \/ RemoteCallFail
  \/ endLoginSession
  \/ EndGetAllOk
  \/ EndUpdateOk
  \/ EndRemoteFail

Spec == Init /\ [][Next]_vars

\* ------------------------------------------- login sessions under a clock
\* `new Date()` of lines 224 and 245-246 reads the wall clock, which advances
\* between the steps of a call.  The behaviours of the login-session
\* operations and their remote calls, with the clock advancing.
Tick ==
  /\ now < MaxClock
  /\ now' = now + 1
  /\ ev' = Event("tick", "clock", NoCall, NoPass, "none")
  /\ UNCHANGED <<isOnline, syncInProgress, local, remote, passes, calls, nEvents,
                 mvars, ends, deleted>>

NextSessions ==
  \/ Tick
  \/ createLoginSession
  \/ endLoginSession
  \/ EndGetAllOk
  \/ EndUpdateOk
  \/ EndRemoteFail
  \/ RemoteCallOk
  \/ RemoteCallFail

SpecSessions == Init /\ [][NextSessions]_vars

\* ------------------------------------------------ remote calls that settle
\* The triggers, the connectivity events and the steps of a pass, with the
\* request wrappers as the mutations interleaved with a pass.
NextSync ==
  \/ SyncWithFirebase
  \/ ForcSync
  \/ OnlineEvent
  \/ OfflineEvent
  \/ SyncFetchOk
  \/ SyncFetchOkSaveThrows
  \/ SyncFetchFail
  \/ SyncMigrateOk
  \/ SyncMigrateFail
  \/ addRequest
  \/ updateRequest
  \/ RemoteCallOk
  \/ RemoteCallFail

\* Every awaited remote call of a pass eventually resolves or rejects: the
\* continuation of a suspended pass (lines 52-68) is eventually run.
FairSpec ==
  /\ Init /\ [][NextSync]_vars
  /\ WF_vars(SyncFetchOk \/ SyncFetchOkSaveThrows \/ SyncFetchFail)
  /\ WF_vars(SyncMigrateOk \/ SyncMigrateFail)

\* ------------------------------------- an instance with a stored component
\* The instance is constructed over a local store that already holds a
\* component; the remote store holds it too (it was mirrored by an earlier
\* run of the application) or is still empty.
DeletionLocals ==
  { [EmptyData EXCEPT !.components = <<Entity(1, "pending")>>] }

DeletionRemotes ==
  { EmptyData,
    [EmptyData EXCEPT !.components = <<Entity(1, "pending")>>,
                      !.requests = <<Entity(1, "approved")>>] }

InitDeletion ==
  /\ isOnline \in BOOLEAN
  /\ local \in DeletionLocals
  /\ remote \in DeletionRemotes
  /\ LET r == initializeSync_entry(isOnline, FALSE, <<>>, local)
     IN  /\ syncInProgress = r.syncInProgress
         /\ passes = r.passes
         /\ ev = Event("init", "initializeSync", NoCall, NoPass,
                       IF r.started THEN "started" ELSE "dropped")
  /\ calls = {}
  /\ nEvents = 0
  /\ ends = {}
  /\ now = 0
  /\ deleted = {}
  /\ MergeIdle

SpecDeletion == InitDeletion /\ [][Next]_vars

\* ------------------------------------------ mergeData applied on its own
\* The collections mergeData is given: at most MaxLen entities, ids unique
\* within a collection (the stores key their entities by id).
MergeItems == {Entity(i, s) : i \in MergeIds, s \in Status}

MergeSeqs ==
  UNION {{s \in [1..k -> MergeItems] : UniqueIds(s)} : k \in 0..MaxLen}

NextCollection(c) ==
  CASE c = "users" -> "components"
    [] c = "components" -> "requests"
    [] c = "requests" -> "notifications"
    [] c = "notifications" -> "loginSessions"
    [] c = "loginSessions" -> "users"

\* one collection ranges over every pair of inputs, a second one over a few
MergeInit ==
  /\ \E c \in Collections, la \in MergeSeqs, lb \in MergeSeqs,
        sa \in {<<>>, <<Entity(1, "pending")>>},
        sb \in {<<>>, <<Entity(1, "approved")>>} :
       /\ mA = [EmptyData EXCEPT ![c] = la, ![NextCollection(c)] = sa]
       /\ mB = [EmptyData EXCEPT ![c] = lb, ![NextCollection(c)] = sb]
  /\ mOut = NotComputed
  /\ mOut2 = NotComputed
  /\ isOnline = FALSE
  /\ syncInProgress = FALSE
  /\ local = EmptyData
  /\ remote = EmptyData
  /\ passes = <<>>
  /\ calls = {}
  /\ nEvents = 0
  /\ ends = {}
  /\ now = 0
  /\ deleted = {}
  /\ ev = Event("init", "initializeSync", NoCall, NoPass, "dropped")

\* mergeData(A, B)
MergeApply ==
  /\ ~mOut.done
  /\ mOut' = [done |-> TRUE, data |-> mergeData(mA, mB)]
  /\ UNCHANGED <<mA, mB, mOut2, sysvars>>

\* mergeData(A, mergeData(A, B))
MergeAgain ==
  /\ mOut.done
  /\ ~mOut2.done
  /\ mOut2' = [done |-> TRUE, data |-> mergeData(mA, mOut.data)]
  /\ UNCHANGED <<mA, mB, mOut, sysvars>>

MergeNext ==
  \/ MergeApply
  \/ MergeAgain

SpecMerge == MergeInit /\ [][MergeNext]_vars

\* ================================================================ claims
Elems(items) == {items[i] : i \in 1..Len(items)}

\* zero entities in all five collections
AllFiveEmpty(data) == \A c \in Collections : Len(data[c]) = 0

\* the local store shows a wrapper call's mutation: the entity is present
\* (create), holds the written fields (update), is absent (delete)
Reflects(loc, call) ==
  CASE call.kind = "create" -> HasId(loc[call.coll], call.ent.id)
    [] call.kind = "update" -> /\ HasId(loc[call.coll], call.ent.id)
                               /\ ItemOf(loc[call.coll], call.ent.id) = call.ent
    [] call.kind = "delete" -> ~HasId(loc[call.coll], call.ent.id)

\* the collection the spec describes as the merge of two collections: the remote
\* one verbatim, then the local entities whose id the remote one lacks
RemoteThenLocalOnly(local_, firebase) ==
  firebase \o SelectSeq(local_, LAMBDA e : ~HasId(firebase, e.id))

\* C1: at most one sync pass is in flight at any time; a syncWithFirebase() or
\* forcSync() call made while syncInProgress is true is dropped and changes no
\* state (no remote call issued, local store, flags and passes untouched; the
\* 'online' handler changes isOnline only); and a pass is started only by a
\* trigger step that found the flag clear, never when another pass finishes.
C1_MutualExclusion ==
  /\ [](Len(passes) <= 1)
  /\ [][(ev'.type = "trigger" /\ syncInProgress)
          => /\ ev'.outcome = "dropped"
             /\ UNCHANGED <<local, remote, passes, calls, syncInProgress>>
             /\ (ev'.via # "online" => UNCHANGED isOnline)]_vars
  /\ [][Len(passes') > Len(passes)
          => ev'.type = "trigger" /\ ~syncInProgress /\ isOnline']_vars

\* a forcSync() call has just been dropped because a pass is in flight
C1_Witness ==
  /\ ev.type = "trigger" /\ ev.via = "forcSync" /\ ev.outcome = "dropped"
  /\ isOnline /\ syncInProgress /\ Len(passes) = 1

\* C2: whenever a dual-write wrapper returns, the local store reflects its
\* mutation (entity present / updated / absent), whatever the online flag, the
\* remote outcome and the sync pass interleaved with the call.
C2_LocalFirstDurability ==
  ev.type = "return" => Reflects(local, ev.call)

\* C3: with the online flag false every trigger is a no-op: the startup
\* initializeSync() starts no pass, a syncWithFirebase() or forcSync() call is
\* dropped and leaves the local store, the remote calls in flight and
\* syncInProgress as they were; and forcSync() does in every state exactly what
\* syncWithFirebase() does.
C3_OfflineGuard ==
  /\ []((ev.type = "init" /\ ~isOnline) => (passes = <<>> /\ ~syncInProgress))
  /\ [](forcSync_entry(isOnline, syncInProgress, passes, local)
          = syncWithFirebase_entry(isOnline, syncInProgress, passes, local))
  /\ [][(ev'.type = "trigger" /\ ~isOnline')
          => /\ ev'.outcome = "dropped"
             /\ UNCHANGED <<local, remote, passes, calls, syncInProgress, isOnline>>]_vars

\* a syncWithFirebase() call has just been dropped offline, no pass in flight
C3_Witness ==
  /\ ev.type = "trigger" /\ ev.via = "syncWithFirebase" /\ ev.outcome = "dropped"
  /\ ~isOnline /\ ~syncInProgress /\ passes = <<>>

\* C4: in each of the five collections mergeData(local, remote) is the remote
\* collection verbatim followed by the local entities whose id the remote
\* collection lacks, in local order: an id on both sides occurs once, with the
\* remote version, and every local-only entity is in the result unchanged.
C4_MergeResult ==
  mOut.done =>
    \A c \in Collections :
      /\ mOut.data[c] = RemoteThenLocalOnly(mA[c], mB[c])
      /\ \A i \in 1..Len(mB[c]) : mOut.data[c][i] = mB[c][i]
      /\ \A e \in Elems(mA[c]) :
           IF HasId(mB[c], e.id)
           THEN Cardinality({k \in 1..Len(mOut.data[c]) : mOut.data[c][k].id = e.id}) = 1
                /\ ItemOf(mOut.data[c], e.id) = ItemOf(mB[c], e.id)
           ELSE e \in Elems(mOut.data[c])

\* merged: one id on both sides with different versions, and a local-only entity
C4_Witness ==
  /\ mOut.done
  /\ \E c \in Collections :
       /\ \E e \in Elems(mA[c]) : HasId(mB[c], e.id) /\ ItemOf(mB[c], e.id) # e
       /\ \E e \in Elems(mA[c]) : ~HasId(mB[c], e.id)

\* C5: mergeData(A, mergeData(A, B)) = mergeData(A, B) in all five collections.
C5_MergeIdempotent ==
  mOut2.done => mOut2.data = mOut.data

\* merged twice, A holding a local-only entity and a conflicting one
C5_Witness ==
  /\ mOut2.done
  /\ \E c \in Collections :
       /\ \E e \in Elems(mA[c]) : HasId(mB[c], e.id) /\ ItemOf(mB[c], e.id) # e
       /\ \E e \in Elems(mA[c]) : ~HasId(mB[c], e.id)

\* C6: when the fetch of a pass returns a snapshot with zero entities in all
\* five collections, the pass hands the local snapshot it read (every entity of
\* every collection) to the migration push, and no step of the pass, up to and
\* including the end of the migration, writes the local store.
C6_EmptyRemoteMigrates ==
  /\ [][(ev'.type = "fetchOk" /\ AllFiveEmpty(ev'.pass.firebaseData))
          => /\ local' = local
             /\ ev'.outcome = "migrating"
             /\ \E i \in 1..Len(passes) :
                  /\ passes[i].pc = "fetch"
                  /\ passes'[i].pc = "migrate"
                  /\ passes'[i].arg = passes[i].localData]_vars
  /\ [][ev'.type \in {"migrateOk", "migrateFail"} => local' = local]_vars

\* the migration of a non-empty local snapshot to an empty remote store is done
C6_Witness ==
  /\ ev.type = "migrateOk"
  /\ AllFiveEmpty(ev.pass.firebaseData)
  /\ ev.pass.localData.requests = <<Entity(1, "pending")>>
  /\ local = ev.pass.localData
  /\ remote = ev.pass.localData

\* C7: a pass migrates iff the fetched snapshot has zero entities in every one
\* of the five collections; otherwise it merges and saves locally.
C7_PathByFiveCollections ==
  ev.type = "fetchOk"
    => /\ (ev.outcome = "migrating") <=> AllFiveEmpty(ev.pass.firebaseData)
       /\ (ev.outcome = "merged") <=> ~AllFiveEmpty(ev.pass.firebaseData)

\* C8: a pass that fetched a non-empty snapshot R, having read the local
\* snapshot L, leaves the local store holding exactly merge(L, R) when it
\* completes: R's entities, L's entities whose id R lacks, nothing else.
C8_ReconciliationResult ==
  (/\ ev.type \in {"fetchOk", "migrateOk"}
   /\ ev.outcome \in {"merged", "migrated"}
   /\ ~AllFiveEmpty(ev.pass.firebaseData))
    => \A c \in Collections :
         local[c] = RemoteThenLocalOnly(ev.pass.localData[c], ev.pass.firebaseData[c])

\* C9: syncInProgress is true exactly while a pass is between its guard and
\* its end: it is set when a pass starts and is false again once the pass has
\* ended, on every path (merged, migrated, fetch failed, migration failed, save
\* failed).
C9_FlagTracksPass ==
  /\ syncInProgress <=> (Len(passes) > 0)
  /\ ev.type \in {"fetchFail", "fetchOkSaveThrows", "migrateOk", "migrateFail"}
       => ~syncInProgress
  /\ (ev.type = "fetchOk" /\ ev.outcome = "merged") => ~syncInProgress

\* a pass has just ended in its catch block (the migration push rejected)
C9_Witness ==
  /\ ev.type = "migrateFail"
  /\ ~syncInProgress
  /\ passes = <<>>

\* C10: when the snapshot fetch of a pass rejects, the pass ends there: it
\* writes neither store, issues no further remote call (no migration), clears
\* syncInProgress, and a trigger made while online then starts a new pass.
C10_FetchFailureAborts ==
  [][ev'.type = "fetchFail"
       => /\ local' = local
          /\ remote' = remote
          /\ calls' = calls
          /\ Len(passes') = Len(passes) - 1
          /\ \A i \in 1..Len(passes') : passes'[i].pc # "migrate"
          /\ ~syncInProgress'
          /\ syncWithFirebase_entry(TRUE, syncInProgress', passes', local').started]_vars

\* the fetch of a pass has just rejected, the local store holding an entity
C10_Witness ==
  /\ ev.type = "fetchFail"
  /\ ev.pass.localData.requests = <<Entity(1, "pending")>>
  /\ local = ev.pass.localData
  /\ passes = <<>>
  /\ ~syncInProgress


\* C11: a rejected remote call of a dual-write wrapper or of endLoginSession is
\* swallowed: the call returns normally to its caller, the local store keeps
\* the write that preceded it, the remote store is untouched by the rejected
\* call, and the call is gone from the remote calls in flight (nothing is left
\* to re-issue it); and every settled remote call ends in a normal return.
C11_RemoteFailureSwallowed ==
  /\ [][(ev'.type = "return" /\ ev'.outcome = "remoteFailed")
          => /\ ev'.call \in calls
             /\ calls' = calls \ {ev'.call}
             /\ local' = local
             /\ remote' = remote]_vars
  /\ [][(ev'.type = "endReturn" /\ ev'.outcome \in {"getAllFailed", "updateFailed"})
          => /\ \E e \in ends : e.userId = ev'.call.ent.userId /\ ends' = ends \ {e}
             /\ local' = local
             /\ remote' = remote
             /\ calls' = calls]_vars
  /\ [][calls' \subseteq calls /\ calls' # calls => ev'.type = "return"]_vars

\* addX's remote create has just been rejected: the entity is in the local
\* store, not in the remote store, and no remote call is left in flight
C11_Witness ==
  /\ ev.type = "return" /\ ev.outcome = "remoteFailed" /\ ev.call.kind = "create"
  /\ HasId(local[ev.call.coll], ev.call.ent.id)
  /\ ~HasId(remote[ev.call.coll], ev.call.ent.id)
  /\ calls = {}

\* C12: a dual-write wrapper or endLoginSession invoked with the online flag
\* false writes locally, returns at once and issues no remote call; a remote
\* call comes into flight only in a step of a call made with the flag true; and
\* a reconnect (or any other trigger) issues no remote call for past mutations.
C12_NoRemoteWriteOffline ==
  /\ [][(ev'.via \in {"wrapper", "endLoginSession"} /\ nEvents' # nEvents /\ ~isOnline)
          => /\ ev'.outcome = "localOnly"
             /\ ev'.type \in {"return", "endReturn"}
             /\ UNCHANGED <<calls, ends, remote>>]_vars
  /\ [][~(calls' \subseteq calls)
          => isOnline /\ ev'.type = "call" /\ calls' = calls \cup {ev'.call}]_vars
  /\ [][~({e.userId : e \in ends'} \subseteq {e.userId : e \in ends})
          => isOnline /\ ev'.type = "endCall"]_vars
  /\ [][ev'.type \in {"trigger", "offline"} => UNCHANGED <<calls, ends, remote>>]_vars

\* a component was added offline and connectivity has come back: the component
\* is local only and no remote call is in flight for it
C12_Witness ==
  /\ ev.type = "trigger" /\ ev.via = "online" /\ isOnline
  /\ calls = {} /\ ends = {}
  /\ \E i \in Ids : HasId(local.components, i) /\ ~HasId(remote.components, i)


\* C13 (as stated): every transition of the online flag from false to true
\* starts a synchronization pass awaiting the remote snapshot, also when an
\* earlier pass is still in flight.
C13_ReconnectAlwaysStartsPass ==
  [][(ev'.type = "trigger" /\ ev'.via = "online")
       => /\ ev'.outcome = "started"
          /\ Len(passes') = Len(passes) + 1
          /\ passes'[Len(passes')].pc = "fetch"]_vars

\* C13 (amended): a transition of the online flag from false to true sets the
\* flag and calls syncWithFirebase(): a pass awaiting the remote snapshot is
\* started iff no pass is in flight; with a pass in flight the trigger is
\* dropped and starts nothing.
C13_ReconnectStartsPassUnlessInFlight ==
  [][(ev'.type = "trigger" /\ ev'.via = "online")
       => /\ ~isOnline /\ isOnline'
          /\ (ev'.outcome = "started") = ~syncInProgress
          /\ IF syncInProgress
             THEN ev'.outcome = "dropped" /\ UNCHANGED <<passes, syncInProgress>>
             ELSE /\ passes' = Append(passes, NewPass(local))
                  /\ passes'[Len(passes')].pc = "fetch"
                  /\ syncInProgress']_vars

\* connectivity has just come back with no pass in flight: a pass was started
\* and awaits the remote snapshot
C13_Witness ==
  /\ ev.type = "trigger" /\ ev.via = "online" /\ ev.outcome = "started"
  /\ isOnline /\ syncInProgress
  /\ Len(passes) = 1 /\ passes[1].pc = "fetch"


\* C14: when a pass completes after a successful fetch (merge path or
\* migration path) and no mutation was interleaved with it (the local store is
\* still the snapshot the pass read, no wrapper or endLoginSession call is in
\* flight), every entity of the local store is present in the remote store.
C14_RemoteCatchesUp ==
  [][(/\ ev'.type \in {"fetchOk", "migrateOk"}
      /\ ev'.outcome \in {"merged", "migrated"}
      /\ ev'.pass.localData = local
      /\ calls = {} /\ ends = {})
       => \A c \in Collections : IdsOf(local'[c]) \subseteq IdsOf(remote'[c])]_vars


\* C15: in every step a login session present in the local store stays
\* present, and a session closed in the local store (isActive = false) stays
\* closed.
C15_SessionLifecycle ==
  [][\A i \in 1..Len(local.loginSessions) :
       LET x == local.loginSessions[i]
       IN  /\ HasId(local'.loginSessions, x.id)
           /\ (~x.isActive => ~ItemOf(local'.loginSessions, x.id).isActive)]_vars


\* C16: when endLoginSession(userId) runs online and its remote calls
\* succeed, (a) the remote sessions it sets out to update are exactly those
\* with that userId and isActive = true in the fetched list, and (b) each
\* update leaves every other remote session as it was and closes its session
\* with the fields of the local closure: isActive = false, logoutTime = the
\* close time T1, sessionDuration = T1 minus the session's open time.
C16_RemoteCatchUp ==
  /\ [][(ev'.via = "endLoginSession" /\ ev'.outcome = "listed")
          => LET u == ev'.call.ent.userId
                 targets == {x.id : x \in {y \in Elems(remote.loginSessions) :
                                             y.userId = u /\ y.isActive}}
             IN  IF targets = {} THEN ev'.type = "endReturn"
                 ELSE \E e \in ends' :
                        /\ e.userId = u /\ e.pc = "update"
                        /\ {e.upd.id} \cup IdsOf(e.queue) = targets]_vars
  /\ [][(ev'.via = "endLoginSession" /\ ev'.outcome = "closed")
          => \E e \in ends :
               /\ e.userId = ev'.call.ent.userId /\ e.pc = "update"
               /\ Len(remote'.loginSessions) = Len(remote.loginSessions)
               /\ \A i \in 1..Len(remote.loginSessions) :
                    LET x == remote.loginSessions[i]
                        y == remote'.loginSessions[i]
                    IN  IF x.id = e.upd.id
                        THEN /\ x.userId = e.userId
                             /\ y = [x EXCEPT !.isActive = FALSE,
                                              !.logoutTime = e.closeTime,
                                              !.sessionDuration = e.closeTime - x.loginTime]
                        ELSE y = x]_vars


\* C17: if ids are unique within each collection of A and of B, ids are
\* unique within each collection of mergeData(A, B), and again within each
\* collection of mergeData(A, mergeData(A, B)) (the next pass over the saved
\* result).
C17_MergeKeepsIdsUnique ==
  (\A c \in Collections : UniqueIds(mA[c]) /\ UniqueIds(mB[c]))
    => /\ mOut.done => \A c \in Collections : UniqueIds(mOut.data[c])
       /\ mOut2.done => \A c \in Collections : UniqueIds(mOut2.data[c])

\* merged: a collection with two entities on each side, one id in common
C17_Witness ==
  /\ mOut.done
  /\ \E c \in Collections :
       /\ Len(mA[c]) = 2 /\ Len(mB[c]) = 2
       /\ Cardinality(IdsOf(mA[c]) \cap IdsOf(mB[c])) = 1
       /\ Len(mOut.data[c]) = 3


\* C18: the continuation of a pass that runs when its fetch settles (the
\* local save included) removes from the local store no entity id that was in
\* it immediately before, so a write made while the pass awaited its fetch is
\* still in the local store once the pass has completed.
C18_PassKeepsLocalWrites ==
  [][ev'.via = "sync"
       => \A c \in Collections : IdsOf(local[c]) \subseteq IdsOf(local'[c])]_vars


\* C19: a component whose deleteComponent call has returned (and that no
\* addComponent call has added again since) is not put back into the local
\* store by the continuation of a later pass, i.e. of a pass that read its
\* local snapshot after the delete (the snapshot is the local store as it is
\* now, without the component).
C19_DeletionSurvivesSync ==
  [][(ev'.via = "sync" /\ ev'.pass.localData = local)
       => \A i \in deleted :
            ~HasId(local.components, i) => ~HasId(local'.components, i)]_vars


\* C20: when every awaited remote call of a pass eventually settles, a set
\* syncInProgress flag is eventually clear again and a pass in flight
\* eventually ends; and whenever the flag is clear and the instance is
\* online, a syncWithFirebase() call starts a new pass.
C20_PassTerminates ==
  /\ syncInProgress ~> ~syncInProgress
  /\ (Len(passes) > 0) ~> (Len(passes) = 0)
  /\ []((isOnline /\ ~syncInProgress)
          => syncWithFirebase_entry(isOnline, syncInProgress, passes, local).started)

\* a pass whose local save threw has ended: the flag is clear, no pass is in
\* flight and, the instance being online, a trigger would start a new pass
C20_Witness ==
  /\ ev.type = "fetchOkSaveThrows" /\ ev.outcome = "saveFailed"
  /\ ~syncInProgress /\ passes = <<>> /\ isOnline
  /\ syncWithFirebase_entry(isOnline, syncInProgress, passes, local).started

====
